---- MODULE Spec2Model ----
(***************************************************************************)
(* khronos: a routed priority queue (queue.go) behind a RESP-speaking      *)
(* command server (server.go, commands.go, the protocol parser/builder).   *)
(*                                                                         *)
(* Every goroutine that calls into the queue is a process of Procs.  Under *)
(* Spec the processes are direct callers of Enqueue / Dequeue / Length (as *)
(* the repository's queue tests are); under ServerSpec they are the        *)
(* per-connection goroutines started by Server.Serve.                      *)
(***************************************************************************)
EXTENDS Integers, Sequences, FiniteSets, TLC

VARIABLES
    queueMap,   \* PriorityQueueWithRouting.queueMap: route -> heap (a sequence of Items)
    notEmpty,   \* PriorityQueueWithRouting.notEmpty: route -> sync.Cond [L, notify]
    lockHolder, \* owner of every sync.Mutex: queueLock and the mutexes Dequeue allocates
    pc,         \* position of every goroutine
    call,       \* the queue call a goroutine is in: [op, route, item]
    result,     \* value returned by the goroutine's last finished queue call
    hist,       \* per route, the enqueue/dequeue events in the order they took effect
                \* (and the moments a peer closed a connection whose pop was parked there)
    input,      \* per connection, the unread chunks the client has sent
    peerOpen,   \* per connection, the peer has not closed its end
    connClosed, \* per connection, conn.Close() has run
    command,    \* per connection, CommandParser.command
    err,        \* per connection, the error connContext.serve returned
    output,     \* per connection, the writes that reached the peer, in order
    sent,       \* number of chunks the clients have sent
    pool,       \* protocolWriterPool: the builders put back and not taken again
    bufs,       \* the bytes.Buffer of every builder allocated so far
    builder,    \* per connection, the builder its Write* call in progress holds
    written     \* number of Write* calls made on the response writers

queueVars == <<queueMap, notEmpty, lockHolder, call, result, hist>>
connVars  == <<input, peerOpen, connClosed, command, err, output, sent>>
poolVars  == <<pool, bufs, builder, written>>
vars      == <<queueMap, notEmpty, lockHolder, pc, call, result, hist,
               input, peerOpen, connClosed, command, err, output, sent,
               pool, bufs, builder, written>>

----------------------------------------------------------------------------
(* Bounds of the model *)

\* number of Enqueue calls of the single caller of SeqSpec
MaxItems == 3
\* number of Enqueue calls of the producer of Spec
MaxConcItems == 2
\* number of chunks the clients send in one behaviour
MaxSends == 2

Procs  == {"p1", "p2", "p3"}
\* Spec: one goroutine enqueues while others dequeue (TestPriorityQueue_Pop)
Producers == {"p1"}
Consumers == {"p2", "p3"}
\* SeqSpec: one goroutine makes every call (TestPriorityQueue)
Caller == "p1"
\* ServerSpec: the connections the server has accepted
Conns  == {"p1", "p2"}
Routes == {"q1", "q2"}
Priorities == {1, 2}
\* the priorities TestPriorityQueue enqueues with
TestPriorities == {1, 2, 3}

\* the value of the n-th item enqueued: callers enqueue distinct payloads
ValueOf(n) == "v" \o ToString(n)

NoProc   == "none"
NoCall   == [op |-> "none"]
NoResult == [kind |-> "none"]
NoBuilder == "none"

----------------------------------------------------------------------------
(* queue.go: Item, PriorityQueue (the heap.Interface) and container/heap *)

\* type Item: value and priority (index mirrors the position in the heap and
\* is read by nothing; it is the position in the sequence here)
Item(v, p) == [value |-> v, priority |-> p]

\* PriorityQueue.Len
PqLen(h) == Len(h)

\* Less with the comparison turned round
LessFlipped(h, i, j) == h[i + 1].priority < h[j + 1].priority
\* PriorityQueue.Less, on 0-based indices as in the source
Less(h, i, j) == h[i + 1].priority > h[j + 1].priority

\* PriorityQueue.Swap
Swap(h, i, j) == [h EXCEPT ![i + 1] = h[j + 1], ![j + 1] = h[i + 1]]

\* container/heap up(h, j)
RECURSIVE up(_, _)
up(h, j) ==
    LET i == IF j = 0 THEN 0 ELSE (j - 1) \div 2   \* Go's (j-1)/2 truncates to 0
    IN  IF i = j \/ ~Less(h, j, i) THEN h ELSE up(Swap(h, i, j), i)

\* container/heap down(h, i0, n)
RECURSIVE down(_, _, _)
down(h, i, n) ==
    LET j1 == 2 * i + 1 IN
    IF j1 >= n THEN h
    ELSE LET j2 == j1 + 1
             j  == IF j2 < n /\ Less(h, j2, j1) THEN j2 ELSE j1
         IN  IF ~Less(h, j, i) THEN h ELSE down(Swap(h, i, j), j, n)

\* heap.Push(queue, item): PriorityQueue.Push appends, then up(n-1)
heapPush(h, x) == up(Append(h, x), Len(h))

\* heap.Pop without the Swap: the root is returned, the last element removed
heapPopKeepsRoot(h) ==
    LET n == Len(h) - 1 IN [item |-> h[1], queue |-> SubSeq(h, 1, n)]
\* heap.Pop(queue): Swap(0, n), down(0, n), then PriorityQueue.Pop takes the last
heapPop(h) ==
    LET n  == Len(h) - 1
        h1 == down(Swap(h, 0, n), 0, n)
    IN  [item |-> h1[n + 1], queue |-> SubSeq(h1, 1, n)]

----------------------------------------------------------------------------
(* The locks *)

QueueLock == "queueLock"
\* the sync.Mutex Dequeue allocates when it creates the route's condition variable
FreshMutex(r) == "mutex:" \o r
Locks == {QueueLock} \cup {FreshMutex(r) : r \in Routes}

\* sync.NewCond(l)
NewCond(l) == [L |-> l, notify |-> {}]

\* the events of route r
Enqueued(r) == {hist[r][k].item : k \in {n \in 1..Len(hist[r]) : hist[r][n].ev = "enq"}}
Dequeued(r) == {hist[r][k].item : k \in {n \in 1..Len(hist[r]) : hist[r][n].ev = "deq"}}
NumEnqueued == Cardinality(UNION {Enqueued(r) : r \in Routes})

HeapOf(r) == IF r \in DOMAIN queueMap THEN queueMap[r] ELSE <<>>
HeapItems(r) == {HeapOf(r)[k] : k \in 1..Len(HeapOf(r))}

----------------------------------------------------------------------------
(* queue.go: PriorityQueueWithRouting *)

Acquire(l, t) == lockHolder' = [lockHolder EXCEPT ![l] = t]
Release(l)    == lockHolder' = [lockHolder EXCEPT ![l] = NoProc]
Record(r, e, it) == hist' = [hist EXCEPT ![r] = Append(@, [ev |-> e, item |-> it])]

\* Enqueue whose Broadcast reaches the condition variable of every route
EnqueueBroadcastAll(t) ==
    LET r    == call[t].route
        cond == IF r \in DOMAIN notEmpty THEN notEmpty[r] ELSE NewCond(QueueLock)
        all  == (r :> cond) @@ notEmpty
    IN  /\ pc[t] = "enqueue"
        /\ lockHolder[QueueLock] = NoProc
        /\ queueMap' = (r :> heapPush(HeapOf(r), call[t].item)) @@ queueMap
        /\ notEmpty' = [q \in DOMAIN all |-> [all[q] EXCEPT !.notify = {}]]
        /\ Record(r, "enq", call[t].item)
        /\ result' = [result EXCEPT ![t] = NoResult]
        /\ pc' = [pc EXCEPT ![t] = "ret"]
        /\ UNCHANGED <<lockHolder, call, connVars>>
        /\ UNCHANGED poolVars

\* Enqueue, lines 77-96: with queueLock held from Lock to the deferred Unlock,
\* create the route's heap if absent, heap.Push, create the condition variable
\* on queueLock if absent, Broadcast (which empties the notify list)
Enqueue(t) ==
    LET r    == call[t].route
        cond == IF r \in DOMAIN notEmpty THEN notEmpty[r] ELSE NewCond(QueueLock)
    IN  /\ pc[t] = "enqueue"
        /\ lockHolder[QueueLock] = NoProc
        /\ queueMap' = (r :> heapPush(HeapOf(r), call[t].item)) @@ queueMap
        /\ notEmpty' = (r :> [cond EXCEPT !.notify = {}]) @@ notEmpty
        /\ Record(r, "enq", call[t].item)
        /\ result' = [result EXCEPT ![t] = NoResult]
        /\ pc' = [pc EXCEPT ![t] = "ret"]
        /\ UNCHANGED <<lockHolder, call, connVars>>
        /\ UNCHANGED poolVars

\* Dequeue, lines 101-117 (and 121 on the way round the loop): with queueLock
\* held from Lock to Unlock, pop and return if the route has an item; otherwise
\* look up the condition variable, creating it on a freshly allocated mutex if
\* absent
DequeueCheck(t) ==
    LET r == call[t].route IN
    /\ pc[t] = "dequeue"
    /\ lockHolder[QueueLock] = NoProc
    /\ IF r \in DOMAIN queueMap /\ PqLen(queueMap[r]) > 0
       THEN LET popped == heapPop(queueMap[r]) IN
            /\ queueMap' = [queueMap EXCEPT ![r] = popped.queue]
            /\ Record(r, "deq", popped.item)
            /\ result' = [result EXCEPT ![t] = [kind |-> "item", item |-> popped.item]]
            /\ pc' = [pc EXCEPT ![t] = "ret"]
            /\ UNCHANGED notEmpty
       ELSE /\ notEmpty' = IF r \in DOMAIN notEmpty THEN notEmpty
                           ELSE (r :> NewCond(FreshMutex(r))) @@ notEmpty
            /\ pc' = [pc EXCEPT ![t] = "deq_condlock"]
            /\ UNCHANGED <<queueMap, result, hist>>
    /\ UNCHANGED <<lockHolder, call, connVars>>
    /\ UNCHANGED poolVars

\* Dequeue, line 118: cond.L.Lock()
DequeueCondLock(t) ==
    LET l == notEmpty[call[t].route].L IN
    /\ pc[t] = "deq_condlock"
    /\ lockHolder[l] = NoProc
    /\ Acquire(l, t)
    /\ pc' = [pc EXCEPT ![t] = "deq_wait"]
    /\ UNCHANGED <<queueMap, notEmpty, call, result, hist, connVars>>
    /\ UNCHANGED poolVars

\* a Wait that parks the caller without unlocking cond.L
DequeueWaitKeepsLock(t) ==
    LET r == call[t].route IN
    /\ pc[t] = "deq_wait"
    /\ notEmpty' = [notEmpty EXCEPT ![r].notify = @ \cup {t}]
    /\ pc' = [pc EXCEPT ![t] = "deq_parked"]
    /\ UNCHANGED <<queueMap, lockHolder, call, result, hist, connVars>>
    /\ UNCHANGED poolVars

\* Dequeue, line 119, first half of cond.Wait(): the caller is added to the
\* condition variable's notify list and cond.L is unlocked
DequeueWait(t) ==
    LET r == call[t].route IN
    /\ pc[t] = "deq_wait"
    /\ notEmpty' = [notEmpty EXCEPT ![r].notify = @ \cup {t}]
    /\ Release(notEmpty[r].L)
    /\ pc' = [pc EXCEPT ![t] = "deq_parked"]
    /\ UNCHANGED <<queueMap, call, result, hist, connVars>>
    /\ UNCHANGED poolVars

\* Dequeue, lines 119-120, second half of cond.Wait(): once a Broadcast has taken
\* the caller off the notify list, cond.L is locked again and then unlocked;
\* the loop goes back to line 121
DequeueWake(t) ==
    LET r == call[t].route IN
    /\ pc[t] = "deq_parked"
    /\ t \notin notEmpty[r].notify
    /\ lockHolder[notEmpty[r].L] = NoProc
    /\ pc' = [pc EXCEPT ![t] = "dequeue"]
    /\ UNCHANGED <<queueVars, connVars>>
    /\ UNCHANGED poolVars

\* Length that answers with the size of the routing table
LengthOfTable(t) ==
    /\ pc[t] = "length"
    /\ lockHolder[QueueLock] = NoProc
    /\ result' = [result EXCEPT ![t] = [kind |-> "int", n |-> Cardinality(DOMAIN queueMap)]]
    /\ pc' = [pc EXCEPT ![t] = "ret"]
    /\ UNCHANGED <<queueMap, notEmpty, lockHolder, call, hist, connVars>>
    /\ UNCHANGED poolVars

\* Length, lines 126-133: with queueLock held from Lock to the deferred Unlock
Length(t) ==
    LET r == call[t].route IN
    /\ pc[t] = "length"
    /\ lockHolder[QueueLock] = NoProc
    /\ result' = [result EXCEPT ![t] =
           [kind |-> "int", n |-> IF r \notin DOMAIN queueMap THEN 0 ELSE PqLen(queueMap[r])]]
    /\ pc' = [pc EXCEPT ![t] = "ret"]
    /\ UNCHANGED <<queueMap, notEmpty, lockHolder, call, hist, connVars>>
    /\ UNCHANGED poolVars

\* one step of a goroutine inside a queue call
QueueStep(t) ==
    \/ Enqueue(t)
    \/ DequeueCheck(t) \/ DequeueCondLock(t) \/ DequeueWait(t) \/ DequeueWake(t)
    \/ Length(t)

----------------------------------------------------------------------------
(* Direct callers of the queue, as in the queue tests *)

NumStarted == NumEnqueued + Cardinality({t \in Procs : call[t].op = "enq" /\ pc[t] # "ret"})

\* pq.Enqueue(route, &Item{value, priority})
CallEnqueue(t, r, p, max) ==
    /\ pc[t] = "idle"
    /\ NumStarted < max
    /\ call' = [call EXCEPT ![t] = [op |-> "enq", route |-> r,
                                    item |-> Item(ValueOf(NumStarted + 1), p)]]
    /\ pc' = [pc EXCEPT ![t] = "enqueue"]
    /\ UNCHANGED <<queueMap, notEmpty, lockHolder, result, hist, connVars>>
    /\ UNCHANGED poolVars

\* pq.Dequeue(route)
CallDequeue(t, r) ==
    /\ pc[t] = "idle"
    /\ call' = [call EXCEPT ![t] = [op |-> "deq", route |-> r]]
    /\ pc' = [pc EXCEPT ![t] = "dequeue"]
    /\ UNCHANGED <<queueMap, notEmpty, lockHolder, result, hist, connVars>>
    /\ UNCHANGED poolVars

\* pq.Length(route)
CallLength(t, r) ==
    /\ pc[t] = "idle"
    /\ call' = [call EXCEPT ![t] = [op |-> "len", route |-> r]]
    /\ pc' = [pc EXCEPT ![t] = "length"]
    /\ UNCHANGED <<queueMap, notEmpty, lockHolder, result, hist, connVars>>
    /\ UNCHANGED poolVars

\* the call returns to the caller
Return(t) ==
    /\ pc[t] = "ret"
    /\ pc' = [pc EXCEPT ![t] = "idle"]
    /\ call' = [call EXCEPT ![t] = NoCall]
    /\ result' = [result EXCEPT ![t] = NoResult]
    /\ UNCHANGED <<queueMap, notEmpty, lockHolder, hist, connVars>>
    /\ UNCHANGED poolVars

\* NewPriorityQueueWithRouting (lines 68-73): both maps empty, queueLock free
Init ==
    /\ queueMap = <<>>
    /\ notEmpty = <<>>
    /\ lockHolder = [l \in Locks |-> NoProc]
    /\ pc = [t \in Procs |-> "idle"]
    /\ call = [t \in Procs |-> NoCall]
    /\ result = [t \in Procs |-> NoResult]
    /\ hist = [r \in Routes |-> <<>>]
    /\ input = [c \in Conns |-> <<>>]
    /\ peerOpen = [c \in Conns |-> TRUE]
    /\ connClosed = [c \in Conns |-> FALSE]
    /\ command = [c \in Conns |-> NoCall]
    /\ err = [c \in Conns |-> [type |-> "nil"]]
    /\ output = [c \in Conns |-> <<>>]
    /\ sent = 0
    /\ pool = {}
    /\ bufs = <<>>
    /\ builder = [c \in Conns |-> NoBuilder]
    /\ written = 0

\* a producer and consumers running concurrently
Next ==
    \/ \E t \in Producers, r \in Routes, p \in Priorities : CallEnqueue(t, r, p, MaxConcItems)
    \/ \E t \in Producers, r \in Routes : CallLength(t, r)
    \/ \E t \in Consumers, r \in Routes : CallDequeue(t, r)
    \/ \E t \in Procs : QueueStep(t)
    \/ \E t \in Procs : Return(t)

Spec == Init /\ [][Next]_vars

\* the scheduler runs every goroutine that can take a step inside a queue call
FairSpec == Spec /\ \A t \in Procs : WF_vars(QueueStep(t))

\* one goroutine making one call after the other; with no other goroutine to
\* Broadcast, a Dequeue that has parked stays parked
SeqNext ==
    \/ \E r \in Routes, p \in TestPriorities : CallEnqueue(Caller, r, p, MaxItems)
    \/ \E r \in Routes : CallLength(Caller, r)
    \/ \E r \in Routes : CallDequeue(Caller, r)
    \/ Enqueue(Caller) \/ Length(Caller)
    \/ DequeueCheck(Caller) \/ DequeueCondLock(Caller) \/ DequeueWait(Caller)
    \/ Return(Caller)

SeqSpec == Init /\ [][SeqNext]_vars

----------------------------------------------------------------------------
(* The wire protocol: request frames, the parser and the reply builder *)

CRLF == "\r\n"
Nil == [type |-> "nil"]

\* the errors of server.go, the parser and error.go, each with its Error() text
ErrQuit == [type |-> "ErrQuit", msg |-> "quit"]
ErrInvalidSyntax == [type |-> "ErrInvalidSyntax", msg |-> "invalid syntax"]
EOF == [type |-> "EOF", msg |-> "EOF"]
NumError(fn, s) ==
    [type |-> "NumError", func |-> fn, msg |-> "strconv." \o fn \o ": parsing \"" \o s \o "\": invalid syntax"]
WriteFailed == [type |-> "OpError", msg |-> "write: broken pipe"]
wrongNumberOfArgsError(cmd) ==
    [type |-> "wrongNumberOfArgsError",
     msg |-> "ERR wrong number of arguments for '" \o cmd \o "' command"]
RECURSIVE Join(_)
Join(a) == IF Len(a) = 1 THEN a[1] ELSE a[1] \o " " \o Join(Tail(a))
\* a run-time panic: it unwinds through the callers as an early return does,
\* but it is no error value; nothing recovers it
Panic(text) == [type |-> "panic", msg |-> "runtime error: " \o text]
wrongCommandError(cmd, args) ==
    [type |-> "wrongCommandError",
     msg |-> IF Len(args) > 0 THEN "ERR wrong command '" \o cmd \o "' args = " \o Join(args)
             ELSE "ERR unknown command '" \o cmd \o "'"]

\* the decimal strings the model's frames use, with their values
Decimals == [s \in {"-1", "0", "1", "2", "3", "4", "5", "6", "7", "8", "9"} |->
                CHOOSE n \in (0 - 1)..9 : ToString(n) = s]

\* parseInt: empty input is ErrInvalidSyntax, otherwise strconv.Atoi
parseInt(s) ==
    IF s = "" THEN [err |-> ErrInvalidSyntax]
    ELSE IF s \in DOMAIN Decimals THEN [err |-> Nil, n |-> Decimals[s]]
    ELSE [err |-> NumError("Atoi", s)]

\* a conversion that reads what is not a number as 0
ParseIntLenient(s) ==
    IF s \in DOMAIN Decimals THEN [err |-> Nil, n |-> Decimals[s]]
    ELSE [err |-> Nil, n |-> 0]
\* strconv.ParseInt(score, 10, 64)
ParseInt(s) ==
    IF s \in DOMAIN Decimals THEN [err |-> Nil, n |-> Decimals[s]]
    ELSE [err |-> NumError("ParseInt", s)]

\* a line of a request: its first byte m and the rest n; a bulk string also
\* carries the data that follows its length line
Line(m, n) == [m |-> m, n |-> n]
Bulk(s) == [m |-> "$", n |-> ToString(Len(s)), data |-> s]
\* the request a client encodes for a command name followed by its arguments
Request(strs) ==
    [hdr |-> Line("*", ToString(Len(strs))), elems |-> [i \in 1..Len(strs) |-> Bulk(strs[i])]]

\* RespProtocolParser.readArrayLength
readArrayLength(f) ==
    IF f.hdr.m = "" THEN [err |-> ErrInvalidSyntax]
    ELSE IF f.hdr.m # "*" THEN [err |-> ErrInvalidSyntax]
    ELSE parseInt(f.hdr.n)

\* RespProtocolParser.readString on the k-th bulk string of the frame
readString(f, k) ==
    LET e == f.elems[k] IN
    IF e.m = "" THEN [err |-> ErrInvalidSyntax]
    ELSE IF e.m # "$" THEN [err |-> ErrInvalidSyntax]
    ELSE LET length == parseInt(e.n) IN
         IF length.err # Nil THEN [err |-> length.err]
         ELSE IF length.n < 0 THEN [err |-> Panic("makeslice: len out of range")]
         ELSE [err |-> Nil, s |-> e.data]

\* RespProtocolParser.readCommandArgs, reading bulk strings k..(length) of the
\* frame; make([]string, length) comes first
RECURSIVE readCommandArgs(_, _, _)
readCommandArgs(f, k, last) ==
    IF last - 1 < 0 THEN [err |-> Panic("makeslice: len out of range")]
    ELSE IF k > last THEN [err |-> Nil, args |-> <<>>]
    ELSE LET arg == readString(f, k) IN
         IF arg.err # Nil THEN [err |-> arg.err]
         ELSE LET rest == readCommandArgs(f, k + 1, last) IN
              IF rest.err # Nil THEN rest
              ELSE [err |-> Nil, args |-> <<arg.s>> \o rest.args]

\* RespProtocolParser.Parse
Parse(f) ==
    LET length == readArrayLength(f) IN
    IF length.err # Nil THEN [err |-> length.err]
    ELSE IF length.n = 0 THEN [err |-> ErrInvalidSyntax]
    ELSE LET name == readString(f, 1) IN
         IF name.err # Nil THEN [err |-> name.err]
         ELSE LET args == readCommandArgs(f, 2, length.n) IN
              IF args.err # Nil THEN [err |-> args.err]
              ELSE [err |-> Nil, name |-> name.s, args |-> args.args]

\* strings.ToLower on the command names the model's clients send
ToLower(s) == CASE s = "PING" -> "ping" [] s = "QUIT" -> "quit" [] OTHER -> s

\* the command table filled by init() in commands.go
commandLibraries == {"ping", "echo", "push", "pop", "length", "quit"}

\* the orders in which a range over the command table can yield its names
RangeOrders ==
    {o \in [1..Cardinality(commandLibraries) -> commandLibraries] :
        \A i, j \in DOMAIN o : i # j => o[i] # o[j]}

\* the constructors NewPingCommand ... NewQuitCommand
Constructor(name, args) ==
    LET bad == CASE name = "ping"   -> Len(args) > 1
                 [] name = "echo"   -> Len(args) # 1
                 [] name = "push"   -> Len(args) # 3
                 [] name = "pop"    -> Len(args) # 1
                 [] name = "length" -> Len(args) # 1
                 [] name = "quit"   -> Len(args) # 0
    IN  IF bad THEN [err |-> wrongNumberOfArgsError(name)]
        ELSE [err |-> Nil,
              command |-> [name |-> name, args |-> IF name = "quit" THEN <<>> ELSE args]]

\* CommandParser.ReadFrom
ReadFrom(f) ==
    LET parsed == Parse(f) IN
    IF parsed.err # Nil THEN [err |-> parsed.err]
    ELSE LET cmd == ToLower(parsed.name) IN
         IF cmd \notin commandLibraries THEN [err |-> wrongCommandError(cmd, parsed.args)]
         ELSE Constructor(cmd, parsed.args)

\* Status.String with the two texts exchanged
StatusStringSwapped(st) == CASE st = "OK" -> "PONG" [] st = "Pong" -> "OK" [] OTHER -> ""
\* Status.String
StatusString(st) == CASE st = "OK" -> "OK" [] st = "Pong" -> "PONG" [] OTHER -> ""

\* protocolBuilder: the bytes of one reply, as the strings concatenated
BuildString(str) == <<"$", ToString(Len(str)), CRLF, str, CRLF>>
BuildInt64(i) == <<":", ToString(i), CRLF>>
BuildError(e) == <<"-", e.msg, CRLF>>
BuildStatus(str) == <<"+", str, CRLF>>
RECURSIVE BuildStrings(_)
BuildStrings(a) == IF a = <<>> THEN <<>> ELSE BuildString(Head(a)) \o BuildStrings(Tail(a))
BuildArray(a) == BuildInt64(Len(a)) \o BuildStrings(a)

----------------------------------------------------------------------------
(* server.go and commands.go: the per-connection goroutine *)

\* the requests the model's clients send
FPing       == Request(<<"PING">>)
FPingTwo    == Request(<<"ping", "a", "b">>)
FUnknown    == Request(<<"foo">>)
FPush       == Request(<<"push", "q1", "a", "1">>)
FPushBad    == Request(<<"push", "q1", "a", "x">>)
FPop        == Request(<<"pop", "q1">>)
FLength     == Request(<<"length", "q1">>)
FQuit       == Request(<<"quit">>)
\* malformed frames: a first byte that is not '*', a bulk string that does not
\* start with '$', a length that is not a number, an empty array
FBadMarker  == [FPing EXCEPT !.hdr.m = "+"]
FBadBulk    == [FPing EXCEPT !.elems[1].m = "+"]
FNonNumeric == [FPing EXCEPT !.hdr.n = "x"]
FEmptyArray == [hdr |-> Line("*", "0"), elems |-> <<>>]
Malformed == {FBadMarker, FBadBulk, FNonNumeric, FEmptyArray}
Frames == {FPing, FPingTwo, FUnknown, FPush, FPushBad, FPop, FLength, FQuit} \cup Malformed

\* what one Read of the connection returns: one request, or two sent back-to-back
Chunks == {<<f>> : f \in Frames} \cup {<<FPing, FPush>>}

\* further requests, sent by the client of the single session below: ping with
\* one argument, the queue commands with a wrong number of arguments, a
\* negative priority, the name "command", and negative lengths
FPingOne    == Request(<<"ping", "hello">>)
FPushTwo    == Request(<<"push", "q1", "a">>)
FPushFour   == Request(<<"push", "q1", "a", "1", "2">>)
FPushNeg    == Request(<<"push", "q1", "b", "-1">>)
FPopNone    == Request(<<"pop">>)
FPopTwo     == Request(<<"pop", "q1", "q2">>)
FLengthNone == Request(<<"length">>)
FLengthTwo  == Request(<<"length", "q1", "q2">>)
FCommand    == Request(<<"command">>)
FNegArray   == [FPing EXCEPT !.hdr.n = "-1"]
FNegBulk    == [FPing EXCEPT !.elems[1].n = "-1"]
FNegArg     == [FPingOne EXCEPT !.elems[2].n = "-1"]
NegativeLength == {FNegArray, FNegBulk, FNegArg}
SessionFrames ==
    Frames \cup NegativeLength
           \cup {FPingOne, FPushTwo, FPushFour, FPushNeg, FPopNone, FPopTwo,
                 FLengthNone, FLengthTwo, FCommand}
SessionChunks == {<<f>> : f \in SessionFrames}

\* a write to the connection succeeds while the peer is there; after the peer
\* has gone it may succeed locally or fail
WriteOutcomes(c) == IF peerOpen[c] THEN {TRUE} ELSE {TRUE, FALSE}
\* responseWriter.WriteFrom / conn.Write: the bytes reach the peer if it is there
ConnWrite(c, bytes, ok) ==
    output' = [output EXCEPT ![c] = IF ok /\ peerOpen[c] THEN Append(@, bytes) ELSE @]

\* Server.Serve, lines 49-64: Accept and go srv.serveConn(connCtx, conn)
Accept(c) ==
    /\ pc[c] = "idle"
    /\ pc' = [pc EXCEPT ![c] = "serve"]
    /\ UNCHANGED <<queueVars, connVars>>
    /\ UNCHANGED poolVars

\* the client writes a chunk to the connection
ClientSend(c, chunk) ==
    /\ pc[c] # "idle" /\ peerOpen[c] /\ ~connClosed[c]
    /\ sent < MaxSends
    /\ sent' = sent + 1
    /\ input' = [input EXCEPT ![c] = Append(@, chunk)]
    /\ UNCHANGED <<queueVars, pc, peerOpen, connClosed, command, err, output>>
    /\ UNCHANGED poolVars

\* the client closes the connection; the server is told nothing, and the
\* history of the route remembers when that happened to a parked pop
ClientClose(c) ==
    /\ pc[c] # "idle" /\ peerOpen[c]
    /\ peerOpen' = [peerOpen EXCEPT ![c] = FALSE]
    /\ hist' = IF pc[c] = "deq_parked"
               THEN [hist EXCEPT ![call[c].route] = Append(@, [ev |-> "close", conn |-> c])]
               ELSE hist
    /\ UNCHANGED <<queueMap, notEmpty, lockHolder, call, result,
                   pc, input, connClosed, command, err, output, sent>>
    /\ UNCHANGED poolVars

\* connContext.serve, lines 99-109: the context is never cancelled; io.Copy
\* hands the connection to CommandParser.ReadFrom, which wraps it in a new
\* bufio.Reader, decodes one request from what the Read returned and drops the
\* reader with whatever else it had buffered.  A Read on a connection the peer
\* has closed returns io.EOF.  A panic in the parser is recovered nowhere: the
\* process, and every goroutine of it, ends.
ServeRead(c) ==
    /\ pc[c] = "serve"
    /\ \/ /\ input[c] # <<>>
          /\ LET got == ReadFrom(Head(Head(input[c]))) IN
             /\ input' = [input EXCEPT ![c] = Tail(@)]
             /\ IF got.err.type = "panic"
                THEN /\ pc' = [t \in Procs |-> "panicked"]
                     /\ UNCHANGED <<err, command>>
                ELSE IF got.err # Nil
                THEN /\ err' = [err EXCEPT ![c] = got.err]
                     /\ pc' = [pc EXCEPT ![c] = "serve_err"]
                     /\ UNCHANGED command
                ELSE /\ command' = [command EXCEPT ![c] = got.command]
                     /\ pc' = [pc EXCEPT ![c] = "execute"]
                     /\ UNCHANGED err
       \/ /\ input[c] = <<>> /\ ~peerOpen[c]
          /\ err' = [err EXCEPT ![c] = EOF]
          /\ pc' = [pc EXCEPT ![c] = "serve_err"]
          /\ UNCHANGED <<input, command>>
    /\ UNCHANGED <<queueVars, peerOpen, connClosed, output, sent>>
    /\ UNCHANGED poolVars

\* what Execute does once the reply has been handed to the response writer:
\* back to the top of serve's loop, or out of serve with the write's error
Written(c, bytes, ok) ==
    /\ ConnWrite(c, bytes, ok)
    /\ err' = [err EXCEPT ![c] = IF ok THEN Nil ELSE WriteFailed]
    /\ pc' = [pc EXCEPT ![c] = IF ok THEN "serve" ELSE "serve_err"]

\* serve returns e without anything written
Failed(c, e) ==
    /\ err' = [err EXCEPT ![c] = e]
    /\ pc' = [pc EXCEPT ![c] = "serve_err"]
    /\ UNCHANGED output

\* the call into the queue that a push / pop / length command makes
QueueCall(c, op, pcv) ==
    /\ call' = [call EXCEPT ![c] = op]
    /\ pc' = [pc EXCEPT ![c] = pcv]
    /\ UNCHANGED <<err, output>>

\* connContext.serve, line 110: parser.command.Execute(c.ctx, writer), up to
\* the command's call into the queue
Execute(c) ==
    LET name == command[c].name
        args == command[c].args
    IN
    /\ pc[c] = "execute"
    /\ CASE name = "command" ->
              /\ \E ok \in WriteOutcomes(c) :
                    IF Len(args) # 0 THEN Written(c, BuildError(wrongNumberOfArgsError(name)), ok)
                    ELSE \E commands \in RangeOrders : Written(c, BuildArray(commands), ok)
              /\ UNCHANGED call
         [] name = "ping" ->
              /\ \E ok \in WriteOutcomes(c) :
                    Written(c, IF Len(args) = 0 THEN BuildStatus(StatusString("Pong"))
                               ELSE IF Len(args) = 1 THEN BuildString(args[1])
                               ELSE BuildError(wrongNumberOfArgsError(name)), ok)
              /\ UNCHANGED call
         [] name = "echo" ->
              /\ \E ok \in WriteOutcomes(c) :
                    Written(c, IF Len(args) # 1 THEN BuildError(wrongNumberOfArgsError(name))
                               ELSE BuildString(args[1]), ok)
              /\ UNCHANGED call
         [] name = "push" ->
              IF Len(args) # 3 THEN Failed(c, wrongNumberOfArgsError("push")) /\ UNCHANGED call
              ELSE LET priority == ParseInt(args[3]) IN
                   IF priority.err # Nil THEN Failed(c, priority.err) /\ UNCHANGED call
                   ELSE QueueCall(c, [op |-> "enq", route |-> args[1],
                                      item |-> Item(args[2], priority.n)], "enqueue")
         [] name = "pop" ->
              IF Len(args) # 1 THEN Failed(c, wrongNumberOfArgsError("pop")) /\ UNCHANGED call
              ELSE QueueCall(c, [op |-> "deq", route |-> args[1]], "dequeue")
         [] name = "length" ->
              IF Len(args) # 1 THEN Failed(c, wrongNumberOfArgsError("length")) /\ UNCHANGED call
              ELSE QueueCall(c, [op |-> "len", route |-> args[1]], "length")
         [] name = "quit" ->
              /\ IF Len(args) # 0 THEN UNCHANGED output
                 ELSE \E ok \in WriteOutcomes(c) : ConnWrite(c, <<CRLF>>, ok)
              /\ err' = [err EXCEPT ![c] =
                            IF Len(args) # 0 THEN wrongNumberOfArgsError("quit") ELSE ErrQuit]
              /\ pc' = [pc EXCEPT ![c] = "serve_err"]
              /\ UNCHANGED call
    /\ UNCHANGED <<queueMap, notEmpty, lockHolder, result, hist,
                   input, peerOpen, connClosed, command, sent>>
    /\ UNCHANGED poolVars

\* the rest of PushCommand / PopCommand / LengthCommand.Execute, after the
\* queue call has returned: the reply
Reply(c) ==
    /\ pc[c] = "ret"
    /\ \E ok \in WriteOutcomes(c) :
          Written(c, CASE call[c].op = "enq" -> BuildStatus(StatusString("OK"))
                       [] call[c].op = "deq" -> BuildString(result[c].item.value)
                       [] call[c].op = "len" -> BuildInt64(result[c].n), ok)
    /\ call' = [call EXCEPT ![c] = NoCall]
    /\ result' = [result EXCEPT ![c] = NoResult]
    /\ UNCHANGED <<queueMap, notEmpty, lockHolder, hist,
                   input, peerOpen, connClosed, command, sent>>
    /\ UNCHANGED poolVars

\* serveConn that returns (and closes the connection) on every error
ServeErrCloses(c) ==
    /\ pc[c] = "serve_err"
    /\ connClosed' = [connClosed EXCEPT ![c] = TRUE]
    /\ pc' = [pc EXCEPT ![c] = "closed"]
    /\ UNCHANGED <<queueVars, input, peerOpen, command, sent, output, err>>
    /\ UNCHANGED poolVars

\* serveConn without the errors.Is(err, ErrQuit) branch
ServeErrReplies(c) ==
    /\ pc[c] = "serve_err"
    /\ \E ok \in WriteOutcomes(c) : ConnWrite(c, BuildError(err[c]), ok)
    /\ pc' = [pc EXCEPT ![c] = "serve"]
    /\ err' = [err EXCEPT ![c] = Nil]
    /\ UNCHANGED <<queueVars, input, peerOpen, command, sent, connClosed>>
    /\ UNCHANGED poolVars

\* Server.serveConn, lines 72-83: serve has returned err.  ErrQuit ends the
\* loop and the deferred conn.Close() runs; any other error is written to the
\* connection as an error reply (a failed write is only logged) and the loop
\* calls serve again.
ServeErr(c) ==
    /\ pc[c] = "serve_err"
    /\ IF err[c] = ErrQuit
       THEN /\ connClosed' = [connClosed EXCEPT ![c] = TRUE]
            /\ pc' = [pc EXCEPT ![c] = "closed"]
            /\ UNCHANGED <<output, err>>
       ELSE /\ \E ok \in WriteOutcomes(c) : ConnWrite(c, BuildError(err[c]), ok)
            /\ pc' = [pc EXCEPT ![c] = "serve"]
            /\ err' = [err EXCEPT ![c] = Nil]
            /\ UNCHANGED connClosed
    /\ UNCHANGED <<queueVars, input, peerOpen, command, sent>>
    /\ UNCHANGED poolVars

\* one step of a connection's goroutine
ConnStep(c) ==
    \/ ServeRead(c) \/ Execute(c) \/ QueueStep(c) \/ Reply(c) \/ ServeErr(c)

ServerNext ==
    \/ \E c \in Conns : Accept(c)
    \/ \E c \in Conns, chunk \in Chunks : ClientSend(c, chunk)
    \/ \E c \in Conns : ClientClose(c)
    \/ \E c \in Conns : ConnStep(c)

ServerSpec == Init /\ [][ServerNext]_vars

\* the scheduler runs every connection goroutine that can take a step
FairServerSpec == ServerSpec /\ \A c \in Conns : WF_vars(ConnStep(c))

\* one client on one connection, sending any of the session's requests; alone
\* on the queue, its Dequeue is never woken
Session == "p1"
SessionStep(c) ==
    \/ ServeRead(c) \/ Execute(c) \/ Reply(c) \/ ServeErr(c)
    \/ Enqueue(c) \/ DequeueCheck(c) \/ DequeueCondLock(c) \/ DequeueWait(c) \/ Length(c)

SessionNext ==
    \/ Accept(Session)
    \/ \E chunk \in SessionChunks : ClientSend(Session, chunk)
    \/ ClientClose(Session)
    \/ SessionStep(Session)

SessionSpec == Init /\ [][SessionNext]_vars

\* the scheduler runs the session's goroutine whenever it can take a step
FairSessionSpec == SessionSpec /\ WF_vars(SessionStep(Session))

----------------------------------------------------------------------------
(* The queue's history, read off hist *)

EventsAt(r, e, k) == {n \in 1..k : hist[r][n].ev = e}
NumEvents(r, e) == Cardinality(EventsAt(r, e, Len(hist[r])))
\* the items enqueued to r and not yet dequeued just before event k of r
PendingBefore(r, k) ==
    {hist[r][n].item : n \in EventsAt(r, "enq", k - 1)}
        \ {hist[r][n].item : n \in EventsAt(r, "deq", k - 1)}
\* position of the enqueue of item it in the history of r
EnqIndex(r, it) == CHOOSE n \in 1..Len(hist[r]) : hist[r][n] = [ev |-> "enq", item |-> it]
DeqEvents(r) == EventsAt(r, "deq", Len(hist[r]))

----------------------------------------------------------------------------
EnqueuesThenDequeues(r) ==
    \E n \in 1..Len(hist[r]) :
        /\ Len(hist[r]) = 2 * n
        /\ \A k \in 1..n : hist[r][k].ev = "enq"
        /\ \A k \in (n + 1)..(2 * n) : hist[r][k].ev = "deq"
C2_StableFifoOrder ==
    \A r \in Routes : EnqueuesThenDequeues(r) =>
        /\ {hist[r][k].item : k \in DeqEvents(r)} = {hist[r][k].item : k \in EventsAt(r, "enq", Len(hist[r]))}
        /\ \A j, k \in DeqEvents(r) : j < k =>
              LET a == hist[r][j].item
                  b == hist[r][k].item
              IN  \/ a.priority > b.priority
                  \/ a.priority = b.priority /\ EnqIndex(r, a) < EnqIndex(r, b)

(* C3: no item is duplicated or lost: the items enqueued to a route are    *)
(* exactly those still in its heap plus those returned by Dequeue calls,    *)
(* and no item is returned twice.                                          *)
C3_NoDuplicateNoLoss ==
    \A r \in Routes :
        /\ Enqueued(r) = HeapItems(r) \cup Dequeued(r)
        /\ HeapItems(r) \cap Dequeued(r) = {}
        /\ Cardinality(HeapItems(r)) = Len(HeapOf(r))
        /\ Cardinality(Dequeued(r)) = NumEvents(r, "deq")
        /\ Cardinality(Enqueued(r)) = NumEvents(r, "enq")
        /\ \A t, u \in Procs :
              (/\ pc[t] = "ret" /\ call[t].op = "deq" /\ call[t].route = r
               /\ pc[u] = "ret" /\ call[u].op = "deq" /\ t # u)
              => /\ result[t].item \in Dequeued(r)
                 /\ result[t].item # result[u].item

\* two consumers that both waited on the same route each hold an item of it
\* while the producer is enqueueing
C3_Witness ==
    \E r \in Routes :
        /\ \A t \in Consumers : pc[t] = "ret" /\ call[t].op = "deq" /\ call[t].route = r
        /\ r \in DOMAIN notEmpty /\ notEmpty[r].L = FreshMutex(r)
        /\ NumEvents(r, "deq") = 2

(* C4: no lost wakeup: under fair scheduling a Dequeue pending on a route  *)
(* does not wait forever while the route's heap holds an item.             *)
InDequeue(t, r) == call[t].op = "deq" /\ call[t].route = r /\ pc[t] # "ret"
C4_NoLostWakeup ==
    \A t \in Consumers : \A r \in Routes :
        (InDequeue(t, r) /\ Len(HeapOf(r)) > 0) ~> (~InDequeue(t, r) \/ Len(HeapOf(r)) = 0)

(* C5: route isolation: a Dequeue on a route returns only an item that was *)
(* enqueued to that route and was pending there; an Enqueue on another      *)
(* route neither wakes a Dequeue pending on the route nor changes its heap. *)
C5_ReturnsOwnRoute ==
    \A r \in Routes : \A k \in DeqEvents(r) : hist[r][k].item \in PendingBefore(r, k)
C5_OtherRouteUntouched ==
    \A t \in Procs : \A r \in Routes :
        (pc[t] = "enqueue" /\ pc'[t] = "ret" /\ call[t].route # r) =>
            /\ HeapOf(r)' = HeapOf(r)
            /\ hist'[r] = hist[r]
            /\ (r \in DOMAIN notEmpty') = (r \in DOMAIN notEmpty)
            /\ r \in DOMAIN notEmpty => notEmpty'[r] = notEmpty[r]
            /\ \A u \in Procs \ {t} : pc'[u] = pc[u] /\ result'[u] = result[u]
C5_DequeueNeedsItem ==
    \A t \in Procs :
        (pc[t] = "dequeue" /\ pc'[t] = "ret") =>
            /\ Len(HeapOf(call[t].route)) > 0
            /\ result'[t].item \in HeapItems(call[t].route)
C5_RouteIsolation ==
    /\ []C5_ReturnsOwnRoute
    /\ [][C5_OtherRouteUntouched /\ C5_DequeueNeedsItem]_vars

\* a consumer is parked on q1 while the other route has received an item and
\* q1 has received none
C5_Witness ==
    \E t \in Consumers :
        /\ pc[t] = "deq_parked" /\ call[t].route = "q1"
        /\ t \in notEmpty["q1"].notify
        /\ Len(HeapOf("q2")) > 0
        /\ hist["q1"] = <<>>

(* C6: Length returns 0 for a route never pushed to and k - j after k      *)
(* Enqueue and j Dequeue calls have taken effect on the route; it waits for *)
(* nothing but queueLock, which no parked goroutine holds.                 *)
C6_LengthIsCount ==
    \A t \in Procs :
        (pc[t] = "length" /\ pc'[t] = "ret") =>
            result'[t] = [kind |-> "int",
                          n |-> NumEvents(call[t].route, "enq") - NumEvents(call[t].route, "deq")]
C6_LockHolderRuns ==
    \A t \in Procs : lockHolder[QueueLock] = t => pc[t] = "deq_wait"
C6_Length ==
    /\ []C6_LockHolderRuns
    /\ [][C6_LengthIsCount]_vars

\* Length answered 1 on a route with two enqueues and one dequeue, and 0 on
\* a route never used
C6_Witness ==
    \E t \in Procs :
        /\ pc[t] = "ret" /\ call[t].op = "len" /\ result[t].n = 1
        /\ NumEvents(call[t].route, "enq") = 2
        /\ NumEvents(call[t].route, "deq") = 1

----------------------------------------------------------------------------
(* The session loop's errors *)

\* errors of request decoding: malformed framing
FramingError(e) == e = ErrInvalidSyntax \/ (e.type = "NumError" /\ e.func = "Atoi")
\* errors of the transport
TransportError(e) == e = EOF \/ e = WriteFailed
\* command-level errors: wrong arity, unknown command, bad priority
CommandError(e) ==
    \/ e.type \in {"wrongNumberOfArgsError", "wrongCommandError"}
    \/ e.type = "NumError" /\ e.func = "ParseInt"
Delivered(c, bytes) == IF peerOpen[c] THEN Append(output[c], bytes) ELSE output[c]

(* C7: when request decoding hits a framing error the session loop goes to *)
(* Closed: the loop does not go back to reading a request on that           *)
(* connection.                                                             *)
C7_FramingErrorCloses ==
    [][\A c \in Conns :
          (pc[c] = "serve_err" /\ FramingError(err[c]) /\ pc'[c] # pc[c])
          => (pc'[c] = "closed" /\ connClosed'[c])]_vars

(* C8: when the transport has failed (a read returned EOF, or a reply write *)
(* failed) the session loop eventually terminates in Closed.               *)
C8_TransportErrorTerminates ==
    \A c \in Conns :
        (pc[c] = "serve_err" /\ TransportError(err[c])) ~> (pc[c] = "closed")

(* C9: a command-level error (wrong arity, unknown command, bad priority)  *)
(* produces exactly one error reply, written by the session loop and by     *)
(* nothing before it, changes no queue, and the loop stays open and goes    *)
(* back to reading the next request.                                       *)
C9_RaisedSilently ==
    \A c \in Conns :
        (pc[c] \in {"serve", "execute"} /\ pc'[c] = "serve_err" /\ CommandError(err'[c]))
        => /\ output'[c] = output[c]
           /\ queueMap' = queueMap /\ hist' = hist
C9_RepliedOnce ==
    \A c \in Conns :
        (pc[c] = "serve_err" /\ CommandError(err[c]) /\ pc'[c] # pc[c])
        => /\ output'[c] = Delivered(c, BuildError(err[c]))
           /\ pc'[c] = "serve"
           /\ ~connClosed'[c]
           /\ queueMap' = queueMap /\ hist' = hist
C9_CommandErrorKeepsOpen == [][C9_RaisedSilently /\ C9_RepliedOnce]_vars

\* a connection answered a rejected request with an error reply and then
\* executed the next request
C9_Witness ==
    \E c \in Conns :
        /\ Len(output[c]) = 2
        /\ output[c][1] \in {BuildError(wrongNumberOfArgsError("ping")),
                             BuildError(wrongCommandError("foo", <<>>)),
                             BuildError(NumError("ParseInt", "x"))}
        /\ output[c][2] = BuildStatus("PONG")
        /\ pc[c] = "serve" /\ ~connClosed[c]

(* C10: quit is a control signal: the empty terminator is written, no error *)
(* reply is written, the connection is closed, and no later request of the  *)
(* connection is executed.                                                 *)
C10_QuitExecuted ==
    \A c \in Conns :
        (pc[c] = "execute" /\ command[c].name = "quit" /\ pc'[c] # pc[c])
        => /\ output'[c] = Delivered(c, <<CRLF>>)
           /\ pc'[c] = "serve_err" /\ err'[c] = ErrQuit
C10_QuitCloses ==
    \A c \in Conns :
        (pc[c] = "serve_err" /\ err[c] = ErrQuit /\ pc'[c] # pc[c])
        => /\ pc'[c] = "closed" /\ connClosed'[c]
           /\ output'[c] = output[c]
C10_ClosedIsFinal ==
    \A c \in Conns :
        pc[c] = "closed"
        => /\ pc'[c] = "closed" /\ output'[c] = output[c]
           /\ command'[c] = command[c] /\ input'[c] = input[c]
C10_Quit == [][C10_QuitExecuted /\ C10_QuitCloses /\ C10_ClosedIsFinal]_vars

\* a connection closed by quit: the terminator is its last write, and a
\* request the client sent after the quit is left unread
C10_Witness ==
    \E c \in Conns :
        /\ pc[c] = "closed" /\ connClosed[c]
        /\ output[c] = <<<<CRLF>>>>
        /\ input[c] # <<>>

----------------------------------------------------------------------------
(* response_writer.go and the builder pool: the Write* calls step by step *)

\* number of Write* calls in one behaviour
MaxWrites == 2

\* the builders protocolWriterPool.New can allocate
Builders == {"b1", "b2"}

\* the Write* calls made on the response writers
WriteCalls ==
    {[kind |-> "error", arg |-> ErrInvalidSyntax],
     [kind |-> "status", arg |-> "OK"],
     [kind |-> "int64", arg |-> 2],
     [kind |-> "string", arg |-> "a"],
     [kind |-> "array", arg |-> <<>>],
     [kind |-> "array", arg |-> <<"ping", "echo">>]}

\* what the call's builder method appends to the buffer
BuilderBytes(w) ==
    CASE w.kind = "error"  -> BuildError(w.arg)
      [] w.kind = "status" -> BuildStatus(StatusString(w.arg))
      [] w.kind = "int64"  -> BuildInt64(w.arg)
      [] w.kind = "string" -> BuildString(w.arg)
      [] w.kind = "array"  -> BuildArray(w.arg)

\* a goroutine calls responseWriter.WriteError / WriteStatus / WriteInt64 /
\* WriteString / WriteArray on its connection
CallWrite(c, w) ==
    /\ pc[c] = "idle"
    /\ written < MaxWrites
    /\ written' = written + 1
    /\ call' = [call EXCEPT ![c] = w]
    /\ pc' = [pc EXCEPT ![c] = "w_get"]
    /\ UNCHANGED <<queueMap, notEmpty, lockHolder, result, hist, connVars, pool, bufs, builder>>

\* getprotocolBuilder: protocolWriterPool.Get() hands out a pooled builder or
\* one made by New, whose buffer is empty
getprotocolBuilder(c) ==
    /\ pc[c] = "w_get"
    /\ \/ \E b \in pool :
             /\ pool' = pool \ {b}
             /\ builder' = [builder EXCEPT ![c] = b]
             /\ UNCHANGED bufs
       \/ \E b \in Builders \ DOMAIN bufs :
             /\ bufs' = (b :> <<>>) @@ bufs
             /\ builder' = [builder EXCEPT ![c] = b]
             /\ UNCHANGED pool
    /\ pc' = [pc EXCEPT ![c] = "w_build"]
    /\ UNCHANGED <<queueVars, connVars, written>>

\* builder.WriteError / WriteStatus / WriteInt64 / WriteString / WriteArray:
\* bytes.Buffer.Write appends to what the buffer holds
builderWrite(c) ==
    /\ pc[c] = "w_build"
    /\ bufs' = [bufs EXCEPT ![builder[c]] = @ \o BuilderBytes(call[c])]
    /\ pc' = [pc EXCEPT ![c] = "w_copy"]
    /\ UNCHANGED <<queueVars, connVars, pool, builder, written>>

\* how much of n bytes a Write to the connection takes: all of it while the
\* peer is there; all, nothing or a part of it once the peer has gone
Taken(c, n) == IF peerOpen[c] THEN {n} ELSE {0, n} \cup (IF n > 1 THEN {1} ELSE {})

\* responseWriter.WriteFrom: io.Copy calls bytes.Buffer.WriteTo, which hands
\* the unread bytes to conn.Write, advances past what was taken, and resets
\* the buffer once all of it was; a short or failed write is the error returned
WriteFrom(c) ==
    LET b == builder[c]
        n == Len(bufs[b])
    IN  /\ pc[c] = "w_copy"
        /\ \E k \in Taken(c, n) :
              /\ output' = [output EXCEPT ![c] =
                                IF k > 0 THEN Append(@, SubSeq(bufs[b], 1, k)) ELSE @]
              /\ bufs' = [bufs EXCEPT ![b] = SubSeq(@, k + 1, n)]
              /\ result' = [result EXCEPT ![c] =
                                [kind |-> "error", err |-> IF k = n THEN Nil ELSE WriteFailed]]
        /\ pc' = [pc EXCEPT ![c] = "w_put"]
        /\ UNCHANGED <<queueMap, notEmpty, lockHolder, call, hist,
                       input, peerOpen, connClosed, command, err, sent, pool, builder, written>>

\* a put that hands the builder back as it is
putWithoutReset(c) ==
    /\ pc[c] = "w_put"
    /\ pool' = pool \cup {builder[c]}
    /\ builder' = [builder EXCEPT ![c] = NoBuilder]
    /\ call' = [call EXCEPT ![c] = NoCall]
    /\ result' = [result EXCEPT ![c] = NoResult]
    /\ pc' = [pc EXCEPT ![c] = "idle"]
    /\ UNCHANGED <<queueMap, notEmpty, lockHolder, hist, connVars, bufs, written>>

\* the deferred putProtocolBuilder(builder): w.Reset(), then
\* protocolWriterPool.Put(w); the Write* call returns its error to the caller
putProtocolBuilder(c) ==
    /\ pc[c] = "w_put"
    /\ bufs' = [bufs EXCEPT ![builder[c]] = <<>>]
    /\ pool' = pool \cup {builder[c]}
    /\ builder' = [builder EXCEPT ![c] = NoBuilder]
    /\ call' = [call EXCEPT ![c] = NoCall]
    /\ result' = [result EXCEPT ![c] = NoResult]
    /\ pc' = [pc EXCEPT ![c] = "idle"]
    /\ UNCHANGED <<queueMap, notEmpty, lockHolder, hist, connVars, written>>

\* the peer of a connection goes away
PeerGone(c) ==
    /\ peerOpen[c]
    /\ peerOpen' = [peerOpen EXCEPT ![c] = FALSE]
    /\ UNCHANGED <<queueVars, pc, input, connClosed, command, err, output, sent, poolVars>>

WriteStep(c) ==
    \/ getprotocolBuilder(c) \/ builderWrite(c) \/ WriteFrom(c) \/ putProtocolBuilder(c)

\* the connections' goroutines writing responses side by side
WriterNext ==
    \/ \E c \in Conns, w \in WriteCalls : CallWrite(c, w)
    \/ \E c \in Conns : WriteStep(c)
    \/ \E c \in Conns : PeerGone(c)

WriterSpec == Init /\ [][WriterNext]_vars

----------------------------------------------------------------------------
(* C11 *)

\* push with an argument count other than 3, pop and length with one other than 1
WrongArity == {FPushTwo, FPushFour, FPopNone, FPopTwo, FLengthNone, FLengthTwo}
\* the connection's next request, the one ServeRead is about to decode
NextRequest(c) == Head(Head(input[c]))
Reading(c) == pc[c] = "serve" /\ input[c] # <<>> /\ pc'[c] # pc[c]
Executing(c, name) == pc[c] = "execute" /\ command[c].name = name /\ pc'[c] # pc[c]

\* C11: a push whose argument count is not 3 or whose priority is not a
\* number, and a pop or length whose argument count is not 1, end in an error
\* without a call into the queue: heaps, routing table and condition
\* variables are as they were
C11_InvalidRequestNoEffect ==
    [][\A c \in Conns :
          /\ (Reading(c) /\ NextRequest(c) \in WrongArity)
                => /\ pc'[c] = "serve_err"
                   /\ err'[c].type = "wrongNumberOfArgsError"
                   /\ <<queueMap, notEmpty, hist, call>>' = <<queueMap, notEmpty, hist, call>>
          /\ (Reading(c) /\ NextRequest(c) = FPushBad)
                => /\ pc'[c] = "execute"
                   /\ <<queueMap, notEmpty, hist, call>>' = <<queueMap, notEmpty, hist, call>>
          /\ (Executing(c, "push") /\ command[c].args[3] = "x")
                => /\ pc'[c] = "serve_err"
                   /\ err'[c].type = "NumError"
                   /\ <<queueMap, notEmpty, hist, call>>' = <<queueMap, notEmpty, hist, call>>
      ]_vars

\* a push of ("a", 1) was served, then a push with priority "x" was answered
\* with the conversion's error, and the heap holds the one item
C11_Witness ==
    /\ output[Session] = << <<"+", "OK", CRLF>>,
                            <<"-", "strconv.ParseInt: parsing \"x\": invalid syntax", CRLF>> >>
    /\ HeapOf("q1") = <<Item("a", 1)>>
    /\ DOMAIN queueMap = {"q1"}

----------------------------------------------------------------------------
(* C12 *)

\* C12: a request named "command" with no argument is resolved to the command
\* of that name, which is then executed, and what the connection is sent for
\* it is no error reply
C12_CommandListsRegistry ==
    [][\A c \in Conns :
          (Reading(c) /\ NextRequest(c) = FCommand)
             => /\ pc'[c] = "execute"
                /\ command'[c].name = "command"
                /\ err'[c] = Nil
      ]_vars

----------------------------------------------------------------------------
(* C14 *)

\* C14: decoding a request whose array length or whose bulk-string length is
\* negative returns a framing error as an error value: serve returns that
\* error, the process does not panic and no command is constructed
C14_NegativeLengthRejected ==
    [][\A c \in Conns :
          (Reading(c) /\ NextRequest(c) \in NegativeLength)
             => /\ pc'[c] = "serve_err"
                /\ FramingError(err'[c])
                /\ command' = command
      ]_vars

----------------------------------------------------------------------------
(* C16 *)

PingArityText == "ERR wrong number of arguments for 'ping' command"

\* C16: ping with no argument is answered with the status PONG, ping with one
\* argument with that argument as a bulk string; ping with two or more
\* arguments is never executed: its decoding ends in the arity error, which is
\* the one reply the connection is sent for it
C16_PingReplies ==
    [][\A c \in Conns :
          /\ Executing(c, "ping")
                => /\ Len(command[c].args) <= 1
                   /\ output'[c] = Delivered(c,
                         IF Len(command[c].args) = 0 THEN <<"+", "PONG", CRLF>>
                         ELSE <<"$", ToString(Len(command[c].args[1])), CRLF,
                                command[c].args[1], CRLF>>)
          /\ (Reading(c) /\ NextRequest(c) \in {FPing, FPingOne})
                => pc'[c] = "execute" /\ command'[c].name = "ping" /\ output' = output
          /\ (Reading(c) /\ NextRequest(c) = FPingTwo)
                => /\ pc'[c] = "serve_err"
                   /\ err'[c].msg = PingArityText
                   /\ output' = output
          /\ (pc[c] = "serve_err" /\ err[c].msg = PingArityText /\ pc'[c] # pc[c])
                => /\ output'[c] = Delivered(c, <<"-", PingArityText, CRLF>>)
                   /\ pc'[c] = "serve"
      ]_vars

\* "ping hello" and then "ping a b" were answered
C16_Witness ==
    output[Session] = << <<"$", "5", CRLF, "hello", CRLF>>, <<"-", PingArityText, CRLF>> >>

----------------------------------------------------------------------------
(* C17 *)

\* a goroutine suspended in cond.Wait()
Suspended(t) == pc[t] = "deq_parked"

\* C17: a goroutine suspended in Dequeue owns no mutex, and an Enqueue or a
\* Length of another goroutine finds queueLock free or in the hands of a
\* goroutine that is running towards its unlock, never of a suspended one
C17_SuspendedHoldsNoLock ==
    /\ \A t \in Procs : Suspended(t) => \A l \in Locks : lockHolder[l] # t
    /\ \A u \in Procs :
          pc[u] \in {"enqueue", "length"}
             => \/ lockHolder[QueueLock] = NoProc
                \/ /\ lockHolder[QueueLock] \in Procs \ {u}
                   /\ ~Suspended(lockHolder[QueueLock])

\* two consumers are suspended, one on each route, on condition variables that
\* Enqueue has bound to queueLock, and the producer's Length has returned
C17_Witness ==
    /\ \A r \in Routes :
          /\ r \in DOMAIN notEmpty /\ notEmpty[r].L = QueueLock
          /\ \E t \in Consumers : Suspended(t) /\ call[t].route = r /\ t \in notEmpty[r].notify
    /\ pc["p1"] = "ret" /\ call["p1"].op = "len" /\ result["p1"].kind = "int"

----------------------------------------------------------------------------
(* C18 *)

\* C18: the condition variable stored for a route is bound to queueLock,
\* whichever of Enqueue and Dequeue created it
C18_CondBoundToQueueLock ==
    \A r \in DOMAIN notEmpty : notEmpty[r].L = QueueLock

----------------------------------------------------------------------------
(* C19 *)

\* C19: Dequeue returns the item of lowest priority first (after priorities
\* 2, 3 and 1: priority 1, then 2, then 3), so every dequeued item has a
\* priority no higher than any item pending on its route
C19_LowestPriorityFirst ==
    \A r \in Routes : \A k \in DeqEvents(r) :
        \A it \in PendingBefore(r, k) : hist[r][k].item.priority <= it.priority

----------------------------------------------------------------------------
(* C15 *)

\* the connection's goroutine is inside pq.Dequeue
Waiting(c) == pc[c] \in {"dequeue", "deq_condlock", "deq_wait", "deq_parked"}

\* C15: a Dequeue that waits on behalf of a connection whose peer has closed
\* it eventually stops waiting, and does so without an item (a cancellation,
\* not a pop)
C15_ClosedConnectionCancelsDequeue ==
    \A c \in Conns :
        (Waiting(c) /\ ~peerOpen[c]) ~> (~Waiting(c) /\ result[c].kind # "item")

----------------------------------------------------------------------------
(* C13 *)

\* C13: the bytes WriteArray has built for a list, which WriteFrom then
\* copies to the connection, are "*<count>\r\n" followed by one bulk-string
\* frame per element, in order
C13_ArrayReplyFrame ==
    \A c \in Conns :
        (pc[c] = "w_copy" /\ call[c].kind = "array")
            => bufs[builder[c]] =
                   <<"*", ToString(Len(call[c].arg)), CRLF>> \o BuildStrings(call[c].arg)

----------------------------------------------------------------------------
(* C20 *)

\* the builders held by Write* calls in progress
Held == {builder[c] : c \in Conns} \ {NoBuilder}
IsPrefix(p, q) == Len(p) <= Len(q) /\ p = SubSeq(q, 1, Len(p))

\* C20: every Write* call holds a builder of its own from Get to the deferred
\* put and none outside; every builder is either held or back in the pool,
\* and the pooled ones are empty; what a call copies to the connection is the
\* reply it built and nothing else, so every write that reached a connection
\* is one reply or, after a failed write, the beginning of one
C20_BufferScopedToResponse ==
    /\ \A c \in Conns :
          /\ (builder[c] # NoBuilder) <=> (pc[c] \in {"w_build", "w_copy", "w_put"})
          /\ \A d \in Conns \ {c} : builder[c] # NoBuilder => builder[c] # builder[d]
          /\ pc[c] = "w_build" => bufs[builder[c]] = <<>>
          /\ pc[c] = "w_copy" => bufs[builder[c]] = BuilderBytes(call[c])
    /\ Held \cap pool = {}
    /\ Held \cup pool = DOMAIN bufs
    /\ \A b \in pool : bufs[b] = <<>>
    /\ \A c \in Conns : \A i \in 1..Len(output[c]) :
          \E w \in WriteCalls : IsPrefix(output[c][i], BuilderBytes(w))

\* a write of a string reply broke off after its first byte, the call put its
\* builder back, and the call on the other connection has taken that builder
\* and built an array reply in it
C20_Witness ==
    \E c, d \in Conns :
        /\ c # d
        /\ output[d] = << <<"$">> >> /\ pc[d] = "idle"
        /\ pc[c] = "w_copy" /\ call[c].kind = "array" /\ call[c].arg # <<>>
        /\ DOMAIN bufs = {builder[c]}

----------------------------------------------------------------------------
(* C21 *)

\* C21: when one read of the connection returns several requests, decoding
\* the first leaves the others to be decoded next, in arrival order: nothing
\* read together with a request is discarded
C21_NoRequestDropped ==
    [][\A c \in Conns :
          (Reading(c) /\ Len(Head(input[c])) > 1)
             => input'[c] = <<Tail(Head(input[c]))>> \o Tail(input[c])
      ]_vars

----------------------------------------------------------------------------
(* C22 *)

\* the connection's pop was parked on route r when its peer closed it, and
\* item it was pushed to r after that
PushedAfterClose(c, r, it) ==
    \E k, n \in 1..Len(hist[r]) :
        /\ k < n
        /\ hist[r][k] = [ev |-> "close", conn |-> c]
        /\ hist[r][n] = [ev |-> "enq", item |-> it]

\* C22: an item pushed to a route after the peer of a connection with a pop
\* parked on that route has closed it is never taken by that connection's
\* Dequeue: items leave a heap only for pops of connections still open
C22_PopOnlyForOpenConnection ==
    [][\A c \in Conns :
          (Waiting(c) /\ pc'[c] = "ret" /\ ~peerOpen[c])
             => ~PushedAfterClose(c, call[c].route, result'[c].item)
      ]_vars
====
